---- MODULE Spec2Model ----
(***************************************************************************)
(* Model of the native (getaddrinfo based) DNS resolver of                 *)
(* src/core/lib/iomgr/resolve_address_posix.cc.                            *)
(*                                                                         *)
(* A C++ string is a sequence of tokens: a token is either one of the      *)
(* delimiter characters ":", "[", "]" or a chunk of text that holds none   *)
(* of them, and the string is the concatenation of its tokens.  The empty  *)
(* string is << >>.                                                        *)
(***************************************************************************)
EXTENDS Integers, Sequences, FiniteSets, TLC

\* ------------------------------------------------------------------ bounds

\* Concurrent LookupHostname calls (each with its own on_done callback).
NumCalls == 2
\* Longest name, in tokens, handed to LookupHostnameBlocking directly.
MaxNameLen == 3
\* Most addrinfo entries one getaddrinfo call returns.
MaxAddrs == 2

Calls == 1..NumCalls

\* ----------------------------------------------------------------- strings

Tokens == {"a", ":", "[", "]", "http", "https", "80"}

RECURSIVE SeqsUpTo(_, _)
SeqsUpTo(S, n) ==
  IF n = 0 THEN {<< >>}
  ELSE LET shorter == SeqsUpTo(S, n - 1)
       IN  shorter \cup {Append(s, t) : s \in {x \in shorter : Len(x) = n - 1}, t \in S}

\* The names and default ports a direct caller of LookupHostnameBlocking passes.
Names == SeqsUpTo(Tokens, MaxNameLen)
DefaultPorts == {<< >>, <<"80">>, <<"http">>, <<"https">>, <<"http", "a">>}

\* The (name, default_port) targets handed to the asynchronous LookupHostname.
Targets ==
  { [name |-> <<"a", ":", "http">>, default_port |-> << >>],
    [name |-> <<"a", "a">>,         default_port |-> <<"80">>],
    [name |-> <<"a">>,              default_port |-> << >>],
    [name |-> <<":", "80">>,        default_port |-> <<"80">>] }

\* absl::string_view::find(ch, from): least index >= from holding ch, 0 for npos.
Find(str, ch, from) ==
  LET hits == {k \in from..Len(str) : str[k] = ch}
  IN  IF hits = {} THEN 0 ELSE CHOOSE k \in hits : \A m \in hits : k <= m

\* substr(first..last), empty when the range is.
Substr(str, first, last) ==
  IF first > last THEN << >> ELSE SubSeq(str, first, last)

\* SplitHostPort(name, &host, &port): host and port are left empty unless the
\* name parses; the port is left empty when the name holds none.
SplitHostPort(name) ==
  LET n == Len(name) IN
  IF n > 0 /\ name[1] = "["
  THEN \* a bracketed host, typically an IPv6 literal
       LET rbracket == Find(name, "]", 2)
           h        == Substr(name, 2, rbracket - 1)
       IN  IF rbracket = 0 THEN [host |-> << >>, port |-> << >>]
           ELSE IF rbracket < n /\ name[rbracket + 1] # ":"
                THEN [host |-> << >>, port |-> << >>]
           ELSE IF Find(h, ":", 1) = 0
                THEN [host |-> << >>, port |-> << >>]
           ELSE [host |-> h, port |-> Substr(name, rbracket + 2, n)]
  ELSE LET colon == Find(name, ":", 1) IN
       IF colon # 0 /\ Find(name, ":", colon + 1) = 0
       THEN \* exactly one colon: host:port
            [host |-> Substr(name, 1, colon - 1), port |-> Substr(name, colon + 1, n)]
       ELSE \* no colon, or two and more: a bare host name or IPv6 literal
            [host |-> name, port |-> << >>]

\* ------------------------------------------------------------------ errors

\* A grpc_error_handle: ok, or a message with integer and string properties.
NoProps == [k \in {} |-> << >>]

SetProp(props, key, val) ==
  [k \in DOMAIN props \cup {key} |-> IF k = key THEN val ELSE props[k]]

OkStatus == [ok |-> TRUE, message |-> << >>, ints |-> NoProps, strs |-> NoProps]

GRPC_ERROR_CREATE(msg) ==
  [ok |-> FALSE, message |-> msg, ints |-> NoProps, strs |-> NoProps]

grpc_error_set_str(err, key, val) == [err EXCEPT !.strs = SetProp(@, key, val)]

grpc_error_set_int(err, key, val) == [err EXCEPT !.ints = SetProp(@, key, val)]

\* The StructuredError handed to the caller: the message and the properties.
grpc_error_to_absl_status(err) ==
  [message |-> err.message, ints |-> err.ints, strs |-> err.strs]

\* -------------------------------------------------------------- the OS side

\* EAI_NONAME and EAI_AGAIN, the failures getaddrinfo is made to report here.
GaiErrors == {-2, -3}

gai_strerror(s) ==
  CASE s = -2 -> <<"Name or service not known">>
    [] s = -3 -> <<"Temporary failure in name resolution">>
    [] OTHER  -> <<"Unknown error">>

\* What one getaddrinfo call answers: an error code, or 0 and n entries.
GaiResponses ==
  [s : GaiErrors, n : {0}] \cup [s : {0}, n : 0..MaxAddrs]

\* The answers given to the work items of concurrent LookupHostname calls: a
\* failure, no entry, or the most entries.
WorkerResponses == {r \in GaiResponses : r.s \in {0, -2} /\ r.n \in {0, MaxAddrs}}

\* The addrinfo list getaddrinfo builds for (host, port): its entries in the
\* resolver's enumeration order, IPv4 and IPv6 sockaddrs alternating.
AddrinfoList(host, port, n) ==
  [k \in 1..n |->
     [ai_addr    |-> [host |-> host, port |-> port, entry |-> k],
      ai_addrlen |-> IF k % 2 = 1 THEN 16 ELSE 28]]

\* ------------------------------------------------------------------- state

VARIABLES
  caller,    \* per call: where its caller is, and what it passed and got back
  engine,    \* the closures handed to EventEngine::Run that no worker took yet
  frame,     \* per call: the stack frame of its LookupHostnameBlocking
  ret,       \* per call: what LookupHostnameBlocking returned
  gaiLog,    \* per call: the getaddrinfo calls made, with their answers
  addrinfo,  \* per call: the addrinfo lists the OS allocated (index = pointer)
  freed,     \* per call: the pointers handed to freeaddrinfo, in order
  onDone,    \* per call: the invocations of its on_done / on_resolved callback
  cancel     \* the last Cancel call: the handle passed and what it returned

vars == <<caller, engine, frame, ret, gaiLog, addrinfo, freed, onDone, cancel>>

\* The arguments the asynchronous entry points take and never name: timeout
\* (milliseconds), interested_parties and name_server.
NoUnused == [timeout |-> 0, interested_parties |-> "nullptr", name_server |-> << >>]

\* A caller that has made no call: no operation, no arguments, no handle yet.
NoCaller ==
  [pc |-> "idle", op |-> "none", name |-> << >>, default_port |-> << >>,
   unused |-> NoUnused, handle |-> << >>]

NoCancel == [called |-> FALSE, handle |-> << >>, result |-> FALSE]

\* Locals of LookupHostnameBlocking as declared: result = nullptr (0), strings
\* and addresses empty, err default constructed (ok).
NoFrame ==
  [pc |-> "idle", thread |-> "none", via |-> "none", name |-> << >>,
   default_port |-> << >>,
   host |-> << >>, port |-> << >>, s |-> 0, i |-> 0, result |-> 0,
   addresses |-> << >>, err |-> OkStatus]

NoRet == [set |-> FALSE]

Init ==
  /\ caller = [c \in Calls |-> NoCaller]
  /\ engine = {}
  /\ frame = [c \in Calls |-> NoFrame]
  /\ ret = [c \in Calls |-> NoRet]
  /\ gaiLog = [c \in Calls |-> << >>]
  /\ addrinfo = [c \in Calls |-> << >>]
  /\ freed = [c \in Calls |-> << >>]
  /\ onDone = [c \in Calls |-> << >>]
  /\ cancel = NoCancel

\* ------------------------------------------------- LookupHostnameBlocking

\* Entry: a fresh frame with the two arguments, on the thread that makes the
\* call, made either directly or by the closure of NativeDNSRequest (line 60).
EnterBlocking(thread, via, name, default_port) ==
  [NoFrame EXCEPT !.pc = "L93", !.thread = thread, !.via = via, !.name = name,
                  !.default_port = default_port]

\* ParseTarget with the port looked at before the host.
ParseTargetPortFirst(f) ==
  LET hp == SplitHostPort(f.name) IN
  IF hp.port = << >> /\ f.default_port = << >>
  THEN [f EXCEPT !.host = hp.host, !.port = hp.port, !.pc = "L146",
                 !.err = grpc_error_set_str(
                           GRPC_ERROR_CREATE(<<"no port in name">>),
                           "kTargetAddress", f.name)]
  ELSE IF hp.host = << >>
  THEN [f EXCEPT !.host = hp.host, !.port = hp.port, !.pc = "L146",
                 !.err = grpc_error_set_str(
                           GRPC_ERROR_CREATE(<<"unparseable host:port">>),
                           "kTargetAddress", f.name)]
  ELSE [f EXCEPT !.host = hp.host, !.pc = "L113",
                 !.port = IF hp.port = << >> THEN f.default_port ELSE hp.port]

\* ParseTarget with the default port never adopted.
ParseTargetNoDefault(f) ==
  LET hp == SplitHostPort(f.name) IN
  IF hp.host = << >>
  THEN [f EXCEPT !.host = hp.host, !.port = hp.port, !.pc = "L146",
                 !.err = grpc_error_set_str(
                           GRPC_ERROR_CREATE(<<"unparseable host:port">>),
                           "kTargetAddress", f.name)]
  ELSE IF hp.port = << >>
  THEN [f EXCEPT !.host = hp.host, !.port = hp.port, !.pc = "L146",
                 !.err = grpc_error_set_str(
                           GRPC_ERROR_CREATE(<<"no port in name">>),
                           "kTargetAddress", f.name)]
  ELSE [f EXCEPT !.host = hp.host, !.port = hp.port, !.pc = "L113"]

\* ParseTarget with a given default port replacing the port of the name.
ParseTargetDefaultWins(f) ==
  LET hp == SplitHostPort(f.name) IN
  IF hp.host = << >>
  THEN [f EXCEPT !.host = hp.host, !.port = hp.port, !.pc = "L146",
                 !.err = grpc_error_set_str(
                           GRPC_ERROR_CREATE(<<"unparseable host:port">>),
                           "kTargetAddress", f.name)]
  ELSE IF f.default_port = << >>
  THEN IF hp.port = << >>
       THEN [f EXCEPT !.host = hp.host, !.port = hp.port, !.pc = "L146",
                      !.err = grpc_error_set_str(
                                GRPC_ERROR_CREATE(<<"no port in name">>),
                                "kTargetAddress", f.name)]
       ELSE [f EXCEPT !.host = hp.host, !.port = hp.port, !.pc = "L113"]
  ELSE [f EXCEPT !.host = hp.host, !.port = f.default_port, !.pc = "L113"]

\* Lines 93-106: split the name, reject an empty host, adopt the default port.
ParseTarget(f) ==
  LET hp == SplitHostPort(f.name) IN
  IF hp.host = << >>
  THEN [f EXCEPT !.host = hp.host, !.port = hp.port, !.pc = "L146",
                 !.err = grpc_error_set_str(
                           GRPC_ERROR_CREATE(<<"unparseable host:port">>),
                           "kTargetAddress", f.name)]
  ELSE IF hp.port = << >>
  THEN IF f.default_port = << >>
       THEN [f EXCEPT !.host = hp.host, !.port = hp.port, !.pc = "L146",
                      !.err = grpc_error_set_str(
                                GRPC_ERROR_CREATE(<<"no port in name">>),
                                "kTargetAddress", f.name)]
       ELSE [f EXCEPT !.host = hp.host, !.port = f.default_port, !.pc = "L113"]
  ELSE [f EXCEPT !.host = hp.host, !.port = hp.port, !.pc = "L113"]

\* Line 117: the well-known service names and their numeric ports.
svc == << <<<<"http">>, <<"80">>>>, <<<<"https">>, <<"443">>>> >>

\* SvcMatch with the loop stopping one entry short.
SvcMatchFirstOnly(port) == IF port = svc[1][1] THEN 1 ELSE 0

\* Lines 118-125: the first entry of svc whose name is the port, 0 for none.
SvcMatch(port) ==
  LET hits == {k \in 1..Len(svc) : port = svc[k][1]}
  IN  IF hits = {} THEN 0 ELSE CHOOSE k \in hits : \A m \in hits : k <= m

\* FillAddrs with each address put in front of the ones before it.
RECURSIVE FillAddrsNewestFirst(_, _, _)
FillAddrsNewestFirst(list, resp, addresses) ==
  IF resp > Len(list) THEN addresses
  ELSE FillAddrsNewestFirst(list, resp + 1,
                            <<[addr |-> list[resp].ai_addr,
                               len  |-> list[resp].ai_addrlen]>> \o addresses)

\* Lines 139-144: one grpc_resolved_address per entry, pushed back in list order.
RECURSIVE FillAddrs(_, _, _)
FillAddrs(list, resp, addresses) ==
  IF resp > Len(list) THEN addresses
  ELSE FillAddrs(list, resp + 1,
                 Append(addresses, [addr |-> list[resp].ai_addr,
                                    len  |-> list[resp].ai_addrlen]))

\* FinishResolve with the parsed host reported in place of the name.
FinishResolveHostTarget(f, heap) ==
  IF f.s # 0
  THEN [f EXCEPT !.pc = "L146",
         !.err = grpc_error_set_str(
                   grpc_error_set_str(
                     grpc_error_set_str(
                       grpc_error_set_int(GRPC_ERROR_CREATE(gai_strerror(f.s)),
                                          "kErrorNo", f.s),
                       "kOsError", gai_strerror(f.s)),
                     "kSyscall", <<"getaddrinfo">>),
                   "kTargetAddress", f.host)]
  ELSE [f EXCEPT !.pc = "L146", !.err = OkStatus,
         !.addresses = IF f.result = 0 THEN f.addresses
                       ELSE FillAddrs(heap[f.result], 1, f.addresses)]

\* Lines 127-145: the error for a failed resolution, or the addresses of a
\* successful one; heap holds the caller's addrinfo lists.
FinishResolve(f, heap) ==
  IF f.s # 0
  THEN [f EXCEPT !.pc = "L146",
         !.err = grpc_error_set_str(
                   grpc_error_set_str(
                     grpc_error_set_str(
                       grpc_error_set_int(GRPC_ERROR_CREATE(gai_strerror(f.s)),
                                          "kErrorNo", f.s),
                       "kOsError", gai_strerror(f.s)),
                     "kSyscall", <<"getaddrinfo">>),
                   "kTargetAddress", f.name)]
  ELSE [f EXCEPT !.pc = "L146", !.err = OkStatus,
         !.addresses = IF f.result = 0 THEN f.addresses
                       ELSE FillAddrs(heap[f.result], 1, f.addresses)]

\* AfterFirstGai with the port of the name, not the port looked up, compared.
AfterFirstGaiParsedPort(f, heap) ==
  IF f.s # 0 /\ SvcMatch(SplitHostPort(f.name).port) # 0
  THEN [f EXCEPT !.pc = "L121", !.i = SvcMatch(SplitHostPort(f.name).port)]
  ELSE FinishResolve(f, heap)

\* Lines 115-126 after the first getaddrinfo: retry a well-known service name.
AfterFirstGai(f, heap) ==
  IF f.s # 0 /\ SvcMatch(f.port) # 0
  THEN [f EXCEPT !.pc = "L121", !.i = SvcMatch(f.port)]
  ELSE FinishResolve(f, heap)

\* getaddrinfo(host, port, &hints, &result) answering resp: on success result
\* points to a new list (nullptr for an empty one), on failure it is untouched.
GaiHeap(c, host, port, resp) ==
  IF resp.s = 0 /\ resp.n > 0
  THEN [addrinfo EXCEPT ![c] = Append(@, AddrinfoList(host, port, resp.n))]
  ELSE addrinfo

GaiResult(c, old, resp) ==
  IF resp.s # 0 THEN old
  ELSE IF resp.n = 0 THEN 0
  ELSE Len(addrinfo[c]) + 1

GaiEntry(host, port, resp) ==
  [host |-> host, port |-> port, s |-> resp.s, n |-> resp.n]

\* Lines 146-154: release the list, return the addresses or the error.
ReturnValue(f) ==
  IF f.err.ok THEN [set |-> TRUE, ok |-> TRUE, value |-> f.addresses]
  ELSE [set |-> TRUE, ok |-> FALSE, status |-> grpc_error_to_absl_status(f.err)]

\* Released with the test for nullptr left out.
ReleasedUnguarded(f, log) == Append(log, f.result)

\* Released with the freeaddrinfo call left out.
ReleasedNothing(f, log) == log

\* Lines 147-149: freeaddrinfo(result) unless result is nullptr.
Released(f, log) == IF f.result # 0 THEN Append(log, f.result) ELSE log

Split(c) ==
  /\ frame[c].pc = "L93"
  /\ frame' = [frame EXCEPT ![c] = ParseTarget(@)]
  /\ UNCHANGED <<caller, engine, ret, gaiLog, addrinfo, freed, onDone, cancel>>

\* Line 113, and what follows the call up to the retry or the done label.
Getaddrinfo1(c, resp) ==
  /\ frame[c].pc = "L113"
  /\ LET f == frame[c] IN
       /\ gaiLog' = [gaiLog EXCEPT ![c] = Append(@, GaiEntry(f.host, f.port, resp))]
       /\ addrinfo' = GaiHeap(c, f.host, f.port, resp)
       /\ frame' = [frame EXCEPT ![c] =
                      AfterFirstGai([f EXCEPT !.s = resp.s,
                                              !.result = GaiResult(c, f.result, resp)],
                                    addrinfo'[c])]
  /\ UNCHANGED <<caller, engine, ret, freed, onDone, cancel>>

\* Getaddrinfo2 with the return value of the retry not stored in s.
Getaddrinfo2KeepsFirstCode(c, resp) ==
  /\ frame[c].pc = "L121"
  /\ LET f == frame[c]
         p == svc[f.i][2]
     IN
       /\ gaiLog' = [gaiLog EXCEPT ![c] = Append(@, GaiEntry(f.host, p, resp))]
       /\ addrinfo' = GaiHeap(c, f.host, p, resp)
       /\ frame' = [frame EXCEPT ![c] =
                      FinishResolve([f EXCEPT !.result = GaiResult(c, f.result, resp)],
                                    addrinfo'[c])]
  /\ UNCHANGED <<caller, engine, ret, freed, onDone, cancel>>

\* Line 121, and what follows the call up to the done label.
Getaddrinfo2(c, resp) ==
  /\ frame[c].pc = "L121"
  /\ LET f == frame[c]
         p == svc[f.i][2]
     IN
       /\ gaiLog' = [gaiLog EXCEPT ![c] = Append(@, GaiEntry(f.host, p, resp))]
       /\ addrinfo' = GaiHeap(c, f.host, p, resp)
       /\ frame' = [frame EXCEPT ![c] =
                      FinishResolve([f EXCEPT !.s = resp.s,
                                              !.result = GaiResult(c, f.result, resp)],
                                    addrinfo'[c])]
  /\ UNCHANGED <<caller, engine, ret, freed, onDone, cancel>>

Done(c) ==
  /\ frame[c].pc = "L146"
  /\ freed' = [freed EXCEPT ![c] = Released(frame[c], @)]
  /\ ret' = [ret EXCEPT ![c] = ReturnValue(frame[c])]
  /\ frame' = [frame EXCEPT ![c].pc = "returned"]
  /\ caller' = IF frame[c].via = "direct"
               THEN [caller EXCEPT ![c].pc = "returned"]
               ELSE caller
  /\ UNCHANGED <<engine, gaiLog, addrinfo, onDone, cancel>>

\* A direct, synchronous call on the caller's own thread.
CallBlocking(c, name, default_port) ==
  /\ caller[c].pc = "idle"
  /\ caller' = [caller EXCEPT ![c] = [NoCaller EXCEPT !.pc = "LookupHostnameBlocking",
                                        !.op = "blocking",
                                        !.name = name, !.default_port = default_port]]
  /\ frame' = [frame EXCEPT ![c] = EnterBlocking("caller", "direct", name, default_port)]
  /\ UNCHANGED <<engine, ret, gaiLog, addrinfo, freed, onDone, cancel>>

\* The one thread that calls LookupHostnameBlocking directly: the first call.
BlockingCaller == CHOOSE c \in Calls : \A d \in Calls : c <= d

NextBlocking ==
  \/ /\ caller[BlockingCaller].pc = "idle"
     /\ \E name \in Names, default_port \in DefaultPorts :
          CallBlocking(BlockingCaller, name, default_port)
  \/ \E c \in Calls : Split(c)
  \/ \E c \in Calls, resp \in GaiResponses : Getaddrinfo1(c, resp)
  \/ \E c \in Calls, resp \in GaiResponses : Getaddrinfo2(c, resp)
  \/ \E c \in Calls : Done(c)

SpecBlocking == Init /\ [][NextBlocking]_vars

\* ---------------------------------------------------------- LookupHostname

\* Closure with the callback of the next call in place of its own.
ClosureOtherCallback(c, name, default_port) ==
  [kind |-> "hostname", on_done |-> (c % NumCalls) + 1, name |-> name,
   default_port |-> default_port]

\* Lines 55-56: the closure owns copies of name and default_port, and on_done.
Closure(c, name, default_port) ==
  [kind |-> "hostname", on_done |-> c, name |-> name, default_port |-> default_port]

\* NativeDNSRequest with the closure run in place, on the caller's thread.
NativeDNSRequestInline(c, name, default_port) ==
  /\ frame' = [frame EXCEPT ![c] =
                 EnterBlocking("caller", "closure", name, default_port)]
  /\ UNCHANGED <<engine, ret, gaiLog, addrinfo, freed, onDone, cancel>>

\* Lines 50-65: hand the closure to EventEngine::Run and return.
NativeDNSRequest(c, name, default_port) ==
  /\ engine' = engine \cup {Closure(c, name, default_port)}
  /\ UNCHANGED <<frame, ret, gaiLog, addrinfo, freed, onDone, cancel>>

\* LookupHostname with the name server, when one is given, looked up in place
\* of the name.
LookupHostnameViaNameServer(c, name, default_port, unused) ==
  /\ caller[c].pc = "idle"
  /\ caller' = [caller EXCEPT ![c] = [NoCaller EXCEPT !.pc = "L77", !.op = "hostname",
                                        !.name = name, !.default_port = default_port,
                                        !.unused = unused]]
  /\ NativeDNSRequest(c, IF unused.name_server = << >> THEN name
                         ELSE unused.name_server, default_port)

\* Lines 69-76: timeout, interested_parties and name_server are unnamed, and
\* so reach nothing.
LookupHostname(c, name, default_port, unused) ==
  /\ caller[c].pc = "idle"
  /\ caller' = [caller EXCEPT ![c] = [NoCaller EXCEPT !.pc = "L77", !.op = "hostname",
                                        !.name = name, !.default_port = default_port,
                                        !.unused = unused]]
  /\ NativeDNSRequest(c, name, default_port)

\* DNSResolver::kNullHandle, the TaskHandle {0, 0}.
kNullHandle == <<0, 0>>

\* HostnameHandle naming the call it was returned to.
HostnameHandlePerCall(c) == <<c, 0>>

\* Line 77: the handle LookupHostname returns.
HostnameHandle(c) == kNullHandle

\* Line 77.
LookupHostnameReturn(c) ==
  /\ caller[c].pc = "L77"
  /\ caller' = [caller EXCEPT ![c].pc = "returned", ![c].handle = HostnameHandle(c)]
  /\ UNCHANGED <<engine, frame, ret, gaiLog, addrinfo, freed, onDone, cancel>>

\* Lines 56-60: a worker of the event engine takes a closure and runs it up to
\* its call of LookupHostnameBlocking.
RunClosure(cl) ==
  /\ cl \in engine
  /\ cl.kind = "hostname"
  /\ frame[cl.on_done].pc = "idle"
  /\ engine' = engine \ {cl}
  /\ frame' = [frame EXCEPT ![cl.on_done] =
                 EnterBlocking("worker", "closure", cl.name, cl.default_port)]
  /\ UNCHANGED <<caller, ret, gaiLog, addrinfo, freed, onDone, cancel>>

\* InvokeOnDone with a second call of the callback.
InvokeOnDoneTwice(log, invocation) == Append(Append(log, invocation), invocation)

\* Line 63: on_done(std::move(result)), on the thread that runs the closure.
InvokeOnDone(log, invocation) == Append(log, invocation)

OnDone(c) ==
  /\ frame[c].pc = "returned"
  /\ frame[c].via = "closure"
  /\ onDone' = [onDone EXCEPT ![c] =
                  InvokeOnDone(@, [result    |-> ret[c],
                                   thread    |-> frame[c].thread,
                                   callerPc  |-> caller[c].pc,
                                   cancelled |-> cancel.called])]
  /\ frame' = [frame EXCEPT ![c].pc = "finished"]
  /\ UNCHANGED <<caller, engine, ret, gaiLog, addrinfo, freed, cancel>>

Next ==
  \/ \E c \in Calls, t \in Targets : LookupHostname(c, t.name, t.default_port, NoUnused)
  \/ \E c \in Calls : LookupHostnameReturn(c)
  \/ \E cl \in engine : RunClosure(cl)
  \/ \E c \in Calls : Split(c)
  \/ \E c \in Calls, resp \in WorkerResponses : Getaddrinfo1(c, resp)
  \/ \E c \in Calls, resp \in WorkerResponses : Getaddrinfo2(c, resp)
  \/ \E c \in Calls : Done(c)
  \/ \E c \in Calls : OnDone(c)

Spec == Init /\ [][Next]_vars

\* The work-dispatch facility runs every closure it was handed, and every
\* getaddrinfo call returns.
WorkItem(c) ==
  \/ \E cl \in engine : cl.on_done = c /\ RunClosure(cl)
  \/ Split(c)
  \/ \E resp \in WorkerResponses : Getaddrinfo1(c, resp)
  \/ \E resp \in WorkerResponses : Getaddrinfo2(c, resp)
  \/ Done(c)
  \/ OnDone(c)

FairSpec == Spec /\ \A c \in Calls : WF_vars(WorkItem(c))

\* ------------------------------------------------- LookupSRV and LookupTXT

\* absl::UnimplementedError(message).
UnimplementedError(message) ==
  [code |-> "UNIMPLEMENTED", message |-> message, ints |-> NoProps, strs |-> NoProps]

\* The StatusOr error handed to on_resolved.
Unsupported(message) ==
  [set |-> TRUE, ok |-> FALSE, status |-> UnimplementedError(message)]

\* Line 167.
SrvMessage == <<"The Native resolver does not support looking up SRV records">>

\* Line 182.
TxtMessage == <<"The Native resolver does not support looking up TXT records">>

\* Lines 166-167 with the message of the TXT lookup.
SrvResultTxtMessage == Unsupported(TxtMessage)

\* Lines 166-167: what the SRV work item hands to on_resolved.
SrvResult == Unsupported(SrvMessage)

\* Lines 181-182: what the TXT work item hands to on_resolved.
TxtResult == Unsupported(TxtMessage)

\* Lines 163 and 178: the closure owns a copy of on_resolved and nothing else.
StubClosure(kind, c) ==
  [kind |-> kind, on_done |-> c, name |-> << >>, default_port |-> << >>]

\* Lines 169 and 184: the TaskHandle {-1, -1}.
InvalidHandle == <<-1, -1>>

\* Line 166 and 181: on_resolved(...), on the thread that runs the closure.
InvokeOnResolved(c, thread, result) ==
  onDone' = [onDone EXCEPT ![c] =
               Append(@, [result |-> result, thread |-> thread,
                          callerPc |-> caller[c].pc, cancelled |-> cancel.called])]

\* LookupSRV with on_resolved called in place, on the caller's thread.
LookupSRVInline(c, name, unused) ==
  /\ caller[c].pc = "idle"
  /\ caller' = [caller EXCEPT ![c] = [NoCaller EXCEPT !.pc = "L169", !.op = "srv",
                                        !.name = name, !.unused = unused]]
  /\ InvokeOnResolved(c, "caller", SrvResult)
  /\ UNCHANGED <<engine, frame, ret, gaiLog, addrinfo, freed, cancel>>

\* Lines 157-168: name, timeout, interested_parties and name_server are
\* unnamed; the closure is handed to EventEngine::Run.
LookupSRV(c, name, unused) ==
  /\ caller[c].pc = "idle"
  /\ caller' = [caller EXCEPT ![c] = [NoCaller EXCEPT !.pc = "L169", !.op = "srv",
                                        !.name = name, !.unused = unused]]
  /\ engine' = engine \cup {StubClosure("srv", c)}
  /\ UNCHANGED <<frame, ret, gaiLog, addrinfo, freed, onDone, cancel>>

\* Line 169.
LookupSRVReturn(c) ==
  /\ caller[c].pc = "L169"
  /\ caller' = [caller EXCEPT ![c].pc = "returned", ![c].handle = InvalidHandle]
  /\ UNCHANGED <<engine, frame, ret, gaiLog, addrinfo, freed, onDone, cancel>>

\* Lines 163-168: a worker of the event engine runs the SRV closure.
RunSRV(cl) ==
  /\ cl \in engine
  /\ cl.kind = "srv"
  /\ engine' = engine \ {cl}
  /\ InvokeOnResolved(cl.on_done, "worker", SrvResult)
  /\ UNCHANGED <<caller, frame, ret, gaiLog, addrinfo, freed, cancel>>

\* Lines 172-183: as LookupSRV.
LookupTXT(c, name, unused) ==
  /\ caller[c].pc = "idle"
  /\ caller' = [caller EXCEPT ![c] = [NoCaller EXCEPT !.pc = "L184", !.op = "txt",
                                        !.name = name, !.unused = unused]]
  /\ engine' = engine \cup {StubClosure("txt", c)}
  /\ UNCHANGED <<frame, ret, gaiLog, addrinfo, freed, onDone, cancel>>

\* Line 184.
LookupTXTReturn(c) ==
  /\ caller[c].pc = "L184"
  /\ caller' = [caller EXCEPT ![c].pc = "returned", ![c].handle = InvalidHandle]
  /\ UNCHANGED <<engine, frame, ret, gaiLog, addrinfo, freed, onDone, cancel>>

\* Lines 178-183: a worker of the event engine runs the TXT closure.
RunTXT(cl) ==
  /\ cl \in engine
  /\ cl.kind = "txt"
  /\ engine' = engine \ {cl}
  /\ InvokeOnResolved(cl.on_done, "worker", TxtResult)
  /\ UNCHANGED <<caller, frame, ret, gaiLog, addrinfo, freed, cancel>>

\* The targets given to LookupHostname beside the SRV and TXT lookups: one
\* that is retried, one without a host, one without a port.
StubTargets ==
  { [name |-> <<"a", ":", "http">>, default_port |-> << >>],
    [name |-> <<":", "80">>,        default_port |-> <<"80">>],
    [name |-> <<"a">>,              default_port |-> << >>] }

\* The names given to LookupSRV and LookupTXT.
StubNames == {<< >>, <<"a">>}

\* What the callers and the workers do once LookupHostname was called.
HostnameWork ==
  \/ \E c \in Calls : LookupHostnameReturn(c)
  \/ \E cl \in engine : RunClosure(cl)
  \/ \E c \in Calls : Split(c)
  \/ \E c \in Calls, resp \in WorkerResponses : Getaddrinfo1(c, resp)
  \/ \E c \in Calls, resp \in WorkerResponses : Getaddrinfo2(c, resp)
  \/ \E c \in Calls : Done(c)
  \/ \E c \in Calls : OnDone(c)

StubWork ==
  \/ \E c \in Calls, name \in StubNames : LookupSRV(c, name, NoUnused)
  \/ \E c \in Calls : LookupSRVReturn(c)
  \/ \E cl \in engine : RunSRV(cl)
  \/ \E c \in Calls, name \in StubNames : LookupTXT(c, name, NoUnused)
  \/ \E c \in Calls : LookupTXTReturn(c)
  \/ \E cl \in engine : RunTXT(cl)

NextStub ==
  \/ \E c \in Calls, t \in StubTargets :
       LookupHostname(c, t.name, t.default_port, NoUnused)
  \/ HostnameWork
  \/ StubWork

\* LookupHostname, LookupSRV and LookupTXT called concurrently.
SpecStub == Init /\ [][NextStub]_vars

\* ------------------------------------------------------------------ Cancel

\* Cancel answering whether the handle is the null handle.
CancelResultForNull(handle) == handle = kNullHandle

\* Line 187: return false.
CancelResult(handle) == FALSE

\* Cancel taking the closures no worker has run yet off the event engine.
CancelDropsPending(handle) ==
  /\ cancel' = [called |-> TRUE, handle |-> handle, result |-> TRUE]
  /\ engine' = {}
  /\ UNCHANGED <<caller, frame, ret, gaiLog, addrinfo, freed, onDone>>

\* Line 187: the handle is unnamed; nothing but the return value happens.
Cancel(handle) ==
  /\ cancel' = [called |-> TRUE, handle |-> handle, result |-> CancelResult(handle)]
  /\ UNCHANGED <<caller, engine, frame, ret, gaiLog, addrinfo, freed, onDone>>

\* The handles passed to Cancel: the null handle, the invalid one, one no call
\* returned, and every handle a call returned.
CancelHandles ==
  {kNullHandle, InvalidHandle, <<1, 2>>}
    \cup {caller[c].handle : c \in {d \in Calls : caller[d].pc = "returned"}}

\* The target given to LookupHostname beside the Cancel calls.
CancelTargets == {[name |-> <<"a", ":", "http">>, default_port |-> << >>]}

NextCancel ==
  \/ \E c \in Calls, t \in CancelTargets :
       LookupHostname(c, t.name, t.default_port, NoUnused)
  \/ HostnameWork
  \/ StubWork
  \/ \E handle \in CancelHandles : Cancel(handle)

\* The three lookups, with Cancel called at any time.
SpecCancel == Init /\ [][NextCancel]_vars

\* The work item of a call, whichever lookup it was.
AnyWorkItem(c) ==
  \/ WorkItem(c)
  \/ \E cl \in engine : cl.on_done = c /\ RunSRV(cl)
  \/ \E cl \in engine : cl.on_done = c /\ RunTXT(cl)

FairSpecCancel == SpecCancel /\ \A c \in Calls : WF_vars(AnyWorkItem(c))

\* ------------------------------------------------------ unused arguments

\* The timeout, interested_parties and name_server values passed.
UnusedArgs ==
  { NoUnused,
    [timeout |-> 120000, interested_parties |-> "pollset_set",
     name_server |-> <<"a", ":", "80">>] }

\* The targets given to LookupHostname with them.
UnusedTargets ==
  { [name |-> <<"a", ":", "http">>, default_port |-> << >>],
    [name |-> <<"a">>,              default_port |-> << >>] }

NextUnused ==
  \/ \E c \in Calls, t \in UnusedTargets, unused \in UnusedArgs :
       LookupHostname(c, t.name, t.default_port, unused)
  \/ HostnameWork

\* LookupHostname called with every combination of target and unused arguments.
SpecUnused == Init /\ [][NextUnused]_vars

\* ------------------------------------------------------------------ claims

\* The call's LookupHostnameBlocking has returned.
Returned(c) == frame[c].pc \in {"returned", "finished"}

\* The call's LookupHostnameBlocking has reached its done label or returned.
Resolved(c) == frame[c].pc \in {"L146", "returned", "finished"}

\* A StatusOr: either a value (the addresses) or a status (the error).
IsStatusOr(r) ==
  /\ r.set
  /\ IF r.ok THEN "value" \in DOMAIN r /\ "status" \notin DOMAIN r
             ELSE "status" \in DOMAIN r /\ "value" \notin DOMAIN r

\* C1: on_done is invoked at most once per LookupHostname call, with an
\* address sequence or an error, and, when every work item runs and every
\* getaddrinfo call returns, each call made leads to on_done invoked once.
C1_OnDoneExactlyOnce ==
  /\ [](\A c \in Calls :
          /\ Len(onDone[c]) <= 1
          /\ \A k \in DOMAIN onDone[c] : IsStatusOr(onDone[c][k].result))
  /\ \A c \in Calls : (caller[c].pc # "idle") ~> (Len(onDone[c]) = 1)

\* Both calls completed, one with addresses and one with an error.
C1_Witness ==
  /\ \A c \in Calls : Len(onDone[c]) = 1 /\ caller[c].pc = "returned"
  /\ \E c, d \in Calls :
       /\ onDone[c][1].result.ok /\ onDone[c][1].result.value # << >>
       /\ ~onDone[d][1].result.ok

\* C2 as stated: on_done is never invoked before LookupHostname has returned.
C2_NeverBeforeReturn ==
  \A c \in Calls : \A k \in DOMAIN onDone[c] : onDone[c][k].callerPc = "returned"

\* C2 amended: on_done is invoked only by the work item, on a worker of the
\* event engine and after the closure was handed over, never on the caller's
\* thread; the caller may still be inside LookupHostname.
C2_OnDoneOnlyFromWorkItem ==
  \A c \in Calls : \A k \in DOMAIN onDone[c] :
    /\ onDone[c][k].thread = "worker"
    /\ onDone[c][k].callerPc \in {"L77", "returned"}

\* on_done ran off the caller's thread while the caller was still at line 77.
C2_Witness ==
  \E c \in Calls :
    /\ Len(onDone[c]) = 1
    /\ onDone[c][1].thread = "worker"
    /\ onDone[c][1].callerPc = "L77"
    /\ caller[c].pc = "L77"

\* What LookupHostnameBlocking(name, default_port) returns when getaddrinfo
\* gives the answers of log, in order.
BlockingOutcome(name, default_port, log) ==
  LET f1 == ParseTarget(EnterBlocking("worker", "closure", name, default_port)) IN
  IF f1.pc = "L146" \/ Len(log) = 0 THEN ReturnValue(f1)
  ELSE LET h1 == IF log[1].s = 0 /\ log[1].n > 0
                 THEN <<AddrinfoList(f1.host, f1.port, log[1].n)>> ELSE << >>
           f2 == AfterFirstGai([f1 EXCEPT !.s = log[1].s, !.result = Len(h1)], h1)
       IN  IF f2.pc = "L146" \/ Len(log) = 1 THEN ReturnValue(f2)
           ELSE LET h2 == IF log[2].s = 0 /\ log[2].n > 0
                          THEN <<AddrinfoList(f2.host, svc[f2.i][2], log[2].n)>>
                          ELSE << >>
                IN  ReturnValue(FinishResolve([f2 EXCEPT !.s = log[2].s,
                                                         !.result = Len(h2)], h2))

\* C3: each on_done gets the result of LookupHostnameBlocking for the target
\* its own LookupHostname call was given, whatever the other calls do.
C3_NoCrossTalk ==
  \A c \in Calls : \A k \in DOMAIN onDone[c] :
    /\ caller[c].pc # "idle"
    /\ onDone[c][k].result =
         BlockingOutcome(caller[c].name, caller[c].default_port, gaiLog[c])

\* Two calls with different targets, both resolved with addresses: one has
\* been delivered while the other's work item is still running.
C3_Witness ==
  \E c, d \in Calls :
    /\ caller[c].name # caller[d].name
    /\ Len(onDone[c]) = 1
    /\ onDone[c][1].result.ok /\ onDone[c][1].result.value # << >>
    /\ frame[d].pc = "L146" /\ frame[d].err.ok /\ frame[d].addresses # << >>
    /\ frame[d].addresses # onDone[c][1].result.value

\* The pointers of the lists getaddrinfo handed to the call.
Obtained(c) == 1..Len(addrinfo[c])

\* C4: a list is released at most once, only a list that was obtained is
\* released, nothing is released before the done label, and when
\* LookupHostnameBlocking returns every list obtained has been released.
C4_ReleasedExactlyOnce ==
  \A c \in Calls :
    /\ \A k \in DOMAIN freed[c] : freed[c][k] \in Obtained(c)
    /\ \A k, m \in DOMAIN freed[c] : freed[c][k] = freed[c][m] => k = m
    /\ ~Returned(c) => freed[c] = << >>
    /\ Returned(c) => {freed[c][k] : k \in DOMAIN freed[c]} = Obtained(c)

\* Returned after a failed first call and a successful retry, the list freed.
C4_Witness ==
  \E c \in Calls :
    /\ Returned(c)
    /\ Len(gaiLog[c]) = 2 /\ gaiLog[c][1].s # 0 /\ gaiLog[c][2].s = 0
    /\ Len(addrinfo[c]) = 1 /\ freed[c] = <<1>>
    /\ ret[c].ok

\* C5: at most two getaddrinfo calls; the second is made exactly when the
\* first failed and the port is "http" or "https", with the same host and the
\* port "80" or "443"; a failed retry ends the lookup.
C5_RetryOnceForWellKnownService ==
  \A c \in Calls :
    /\ Len(gaiLog[c]) <= 2
    /\ frame[c].pc = "L121" =>
         /\ Len(gaiLog[c]) = 1 /\ gaiLog[c][1].s # 0
         /\ gaiLog[c][1].port \in {<<"http">>, <<"https">>}
    /\ Resolved(c) /\ Len(gaiLog[c]) >= 1 =>
         (Len(gaiLog[c]) = 2 <=>
            /\ gaiLog[c][1].s # 0
            /\ gaiLog[c][1].port \in {<<"http">>, <<"https">>})
    /\ Len(gaiLog[c]) = 2 =>
         /\ gaiLog[c][2].host = gaiLog[c][1].host
         /\ gaiLog[c][1].port = <<"http">> => gaiLog[c][2].port = <<"80">>
         /\ gaiLog[c][1].port = <<"https">> => gaiLog[c][2].port = <<"443">>
         /\ Resolved(c)

\* Returned after the "https" lookup and its retry with "443" both failed.
C5_Witness ==
  \E c \in Calls :
    /\ Returned(c)
    /\ Len(gaiLog[c]) = 2
    /\ gaiLog[c][1].port = <<"https">> /\ gaiLog[c][2].port = <<"443">>
    /\ gaiLog[c][1].s # 0 /\ gaiLog[c][2].s # 0
    /\ ~ret[c].ok

\* The error LookupHostnameBlocking built is msg with only the target property.
IsTargetError(c, msg) ==
  /\ ~frame[c].err.ok
  /\ frame[c].err.message = msg
  /\ DOMAIN frame[c].err.strs = {"kTargetAddress"}
  /\ frame[c].err.strs["kTargetAddress"] = frame[c].name
  /\ DOMAIN frame[c].err.ints = {}
  /\ Returned(c) => ~ret[c].ok /\ ret[c].status.message = msg

\* C6: a name whose parse leaves the host empty fails as unparseable, with
\* the name as the target property and no getaddrinfo call, whatever the
\* default port is.
C6_EmptyHostIsUnparseable ==
  \A c \in Calls :
    Resolved(c) /\ SplitHostPort(frame[c].name).host = << >> =>
      /\ IsTargetError(c, <<"unparseable host:port">>)
      /\ gaiLog[c] = << >>

\* A malformed, non-empty name with an empty default port came back unparseable.
C6_Witness ==
  \E c \in Calls :
    /\ Returned(c)
    /\ frame[c].name # << >> /\ frame[c].default_port = << >>
    /\ SplitHostPort(frame[c].name).host = << >>
    /\ ret[c].status.message = <<"unparseable host:port">>
    /\ ret[c].status.strs["kTargetAddress"] = frame[c].name

\* C7: a name with a host and no port fails with "no port in name" (the name
\* as the target property) when the default port is empty, and is otherwise
\* resolved with the default port as the port.
C7_MissingPortOrDefault ==
  \A c \in Calls :
    LET hp == SplitHostPort(frame[c].name) IN
    frame[c].pc \notin {"idle", "L93"} /\ hp.host # << >> /\ hp.port = << >> =>
      IF frame[c].default_port = << >>
      THEN /\ Resolved(c)
           /\ IsTargetError(c, <<"no port in name">>)
           /\ gaiLog[c] = << >>
      ELSE /\ frame[c].host = hp.host
           /\ frame[c].port = frame[c].default_port
           /\ frame[c].pc # "L113" =>
                /\ Len(gaiLog[c]) >= 1
                /\ gaiLog[c][1].host = hp.host
                /\ gaiLog[c][1].port = frame[c].default_port

\* A name with a host but no port and no default port came back as missing port.
C7_Witness ==
  \E c \in Calls :
    /\ Returned(c)
    /\ SplitHostPort(frame[c].name).host # << >>
    /\ SplitHostPort(frame[c].name).port = << >>
    /\ frame[c].default_port = << >>
    /\ ret[c].status.message = <<"no port in name">>
    /\ ret[c].status.strs["kTargetAddress"] = frame[c].name

\* The answer of the last getaddrinfo call the lookup made.
LastGai(c) == gaiLog[c][Len(gaiLog[c])]

\* C8: when the last getaddrinfo call made failed, the lookup returns an
\* error with that call's code, its gai_strerror text, the syscall name and
\* the name as given, and no address; a result is an error or addresses,
\* never an error with addresses.
C8_OsFailureIsStructuredError ==
  \A c \in Calls :
    /\ Resolved(c) /\ gaiLog[c] # << >> /\ LastGai(c).s # 0 =>
         /\ ~frame[c].err.ok
         /\ frame[c].err.message = gai_strerror(LastGai(c).s)
         /\ DOMAIN frame[c].err.ints = {"kErrorNo"}
         /\ frame[c].err.ints["kErrorNo"] = LastGai(c).s
         /\ DOMAIN frame[c].err.strs = {"kOsError", "kSyscall", "kTargetAddress"}
         /\ frame[c].err.strs["kOsError"] = gai_strerror(LastGai(c).s)
         /\ frame[c].err.strs["kSyscall"] = <<"getaddrinfo">>
         /\ frame[c].err.strs["kTargetAddress"] = frame[c].name
         /\ frame[c].addresses = << >>
    /\ Resolved(c) /\ ~frame[c].err.ok => frame[c].addresses = << >>
    /\ Returned(c) =>
         /\ IsStatusOr(ret[c])
         /\ ret[c].ok = frame[c].err.ok
         /\ ~ret[c].ok => ret[c].status.message = frame[c].err.message

\* A name with a port came back as an OS failure after the retry failed too,
\* reporting the name and not the host.
C8_Witness ==
  \E c \in Calls :
    /\ Returned(c)
    /\ Len(gaiLog[c]) = 2 /\ gaiLog[c][1].s # 0 /\ gaiLog[c][2].s # 0
    /\ frame[c].name # frame[c].host
    /\ ~ret[c].ok
    /\ ret[c].status.ints["kErrorNo"] = gaiLog[c][2].s
    /\ ret[c].status.strs["kTargetAddress"] = frame[c].name

\* name is host ":" port, both without a delimiter and neither empty.
IsHostColonPort(name, k) ==
  /\ k \in 2..(Len(name) - 1)
  /\ name[k] = ":"
  /\ \A j \in DOMAIN name : j # k => name[j] \notin {":", "[", "]"}

\* C9: for a name host:port with a non-empty port the first getaddrinfo call
\* is made, with that host and that port, whatever the default port is.
C9_EmbeddedPortIsUsed ==
  \A c \in Calls : \A k \in DOMAIN frame[c].name :
    IsHostColonPort(frame[c].name, k) /\ frame[c].pc \notin {"idle", "L93"} =>
      LET host == SubSeq(frame[c].name, 1, k - 1)
          port == SubSeq(frame[c].name, k + 1, Len(frame[c].name))
      IN  /\ frame[c].host = host
          /\ frame[c].port = port
          /\ frame[c].pc # "L113" =>
               /\ Len(gaiLog[c]) >= 1
               /\ gaiLog[c][1].host = host
               /\ gaiLog[c][1].port = port

\* host:80 given with the default port "https" was looked up with port "80".
C9_Witness ==
  \E c \in Calls :
    /\ IsHostColonPort(frame[c].name, 2)
    /\ frame[c].default_port = <<"https">>
    /\ Len(gaiLog[c]) = 1
    /\ gaiLog[c][1].host = SubSeq(frame[c].name, 1, 1)
    /\ gaiLog[c][1].port = <<"80">>

\* C10: when the last getaddrinfo call made succeeded, the lookup returns one
\* address per entry of the list it got, in the order of the list, with the
\* entry's bytes and length; no entries give an empty sequence, not an error.
C10_AddressesMirrorAddrinfo ==
  \A c \in Calls :
    Returned(c) /\ gaiLog[c] # << >> /\ LastGai(c).s = 0 =>
      /\ ret[c].ok
      /\ Len(ret[c].value) = LastGai(c).n
      /\ LastGai(c).n > 0 =>
           LET list == addrinfo[c][Len(addrinfo[c])] IN
           /\ Len(list) = LastGai(c).n
           /\ \A k \in DOMAIN list :
                /\ ret[c].value[k].addr = list[k].ai_addr
                /\ ret[c].value[k].len = list[k].ai_addrlen

\* The retry succeeded with more than one entry and all came back in order.
C10_Witness ==
  \E c \in Calls :
    /\ Returned(c)
    /\ Len(gaiLog[c]) = 2 /\ gaiLog[c][2].s = 0 /\ gaiLog[c][2].n >= 2
    /\ ret[c].ok
    /\ Len(ret[c].value) = gaiLog[c][2].n
    /\ ret[c].value[1].addr.entry = 1 /\ ret[c].value[2].addr.entry = 2

\* The OS answered success with no entry and the lookup returned no address.
C10_EmptyWitness ==
  \E c \in Calls :
    /\ Returned(c)
    /\ gaiLog[c] # << >> /\ LastGai(c).s = 0 /\ LastGai(c).n = 0
    /\ ret[c].ok /\ ret[c].value = << >>

\* The call is a LookupSRV or a LookupTXT.
IsStub(c) == caller[c].op \in {"srv", "txt"}

\* A closure of the call is with the event engine, not yet taken by a worker.
Pending(c) == \E cl \in engine : cl.on_done = c

\* The fixed message of the lookup the call made.
StubMessage(c) ==
  IF caller[c].op = "srv"
  THEN <<"The Native resolver does not support looking up SRV records">>
  ELSE <<"The Native resolver does not support looking up TXT records">>

\* C11: LookupSRV and LookupTXT invoke on_resolved at most once, not while
\* the work item is still pending and exactly once when it has run, always
\* with the UNIMPLEMENTED error whose message names the record type asked for.
C11_StubsReportUnsupported ==
  \A c \in Calls :
    IsStub(c) =>
      /\ Len(onDone[c]) <= 1
      /\ Pending(c) => onDone[c] = << >>
      /\ ~Pending(c) => Len(onDone[c]) = 1
      /\ \A k \in DOMAIN onDone[c] :
           LET r == onDone[c][k].result IN
           /\ ~r.ok
           /\ "value" \notin DOMAIN r
           /\ r.status.code = "UNIMPLEMENTED"
           /\ r.status.message = StubMessage(c)

\* A LookupSRV and a LookupTXT call, both answered.
C11_Witness ==
  \E c, d \in Calls :
    /\ caller[c].op = "srv" /\ caller[d].op = "txt"
    /\ Len(onDone[c]) = 1 /\ Len(onDone[d]) = 1
    /\ onDone[c][1].result.status.message # onDone[d][1].result.status.message
    /\ caller[c].name # caller[d].name

\* C12: on_resolved of LookupSRV and LookupTXT is invoked on a worker of the
\* event engine only: every step that invokes it takes the call's closure off
\* the engine and is no step of the caller.
C12_StubCallbackOnlyFromWorkItem ==
  /\ [](\A c \in Calls : IsStub(c) =>
          \A k \in DOMAIN onDone[c] : onDone[c][k].thread = "worker")
  /\ [][\A c \in Calls :
          onDone'[c] # onDone[c] /\ IsStub(c)' =>
            /\ Pending(c) /\ ~Pending(c)'
            /\ caller' = caller]_vars

\* on_resolved ran on a worker while the caller was still inside LookupSRV.
C12_Witness ==
  \E c \in Calls :
    /\ caller[c].op = "srv" /\ caller[c].pc = "L169"
    /\ Len(onDone[c]) = 1
    /\ onDone[c][1].thread = "worker"
    /\ onDone[c][1].callerPc = "L169"

\* C13: what an asynchronous entry point returns is fixed by the entry point
\* alone: LookupHostname returns the null handle, LookupSRV and LookupTXT the
\* invalid handle {-1, -1}, whatever the arguments and whether or not the
\* work item has run; no handle tells one call from another.
C13_HandlesAreSentinels ==
  \A c \in Calls :
    /\ caller[c].pc # "returned" => caller[c].handle = << >>
    /\ caller[c].pc = "returned" /\ caller[c].op = "hostname" =>
         caller[c].handle = kNullHandle
    /\ caller[c].pc = "returned" /\ IsStub(c) => caller[c].handle = <<-1, -1>>
    /\ \A d \in Calls :
         caller[c].pc = "returned" /\ caller[d].pc = "returned"
           /\ caller[c].op = caller[d].op => caller[c].handle = caller[d].handle

\* LookupHostname returned its handle while its work item was still pending,
\* and LookupSRV returned its handle after its work item had run.
C13_Witness ==
  \E c, d \in Calls :
    /\ caller[c].op = "hostname" /\ caller[c].pc = "returned"
    /\ Pending(c) /\ caller[c].handle = kNullHandle
    /\ caller[d].op = "srv" /\ caller[d].pc = "returned"
    /\ Len(onDone[d]) = 1 /\ onDone[d][1].callerPc = "L169"
    /\ caller[d].handle = InvalidHandle

\* C14: Cancel returns false, whatever handle it is given and whatever the
\* state of the calls is.
C14_CancelReturnsFalse == cancel.called => cancel.result = FALSE

\* Cancel was given the handle a LookupHostname call returned while that
\* call's work item was between its two getaddrinfo calls.
C14_Witness ==
  \E c \in Calls :
    /\ cancel.called /\ ~cancel.result
    /\ caller[c].op = "hostname" /\ caller[c].pc = "returned"
    /\ cancel.handle = caller[c].handle
    /\ frame[c].pc = "L121"

\* Cancel was given the null handle before any call returned one.
C14_NullHandleWitness ==
  /\ cancel.called /\ ~cancel.result /\ cancel.handle = kNullHandle
  /\ \A c \in Calls : caller[c].pc # "returned"

\* Cancel was given the handle of a call whose work item is still pending.
C14_PendingWitness ==
  \E c \in Calls :
    /\ cancel.called /\ ~cancel.result
    /\ caller[c].op = "hostname" /\ caller[c].pc = "returned"
    /\ cancel.handle = caller[c].handle /\ Pending(c)

\* Cancel was given a handle no call returned after every call completed.
C14_CompletedWitness ==
  /\ cancel.called /\ ~cancel.result /\ cancel.handle = <<1, 2>>
  /\ \A c \in Calls : Len(onDone[c]) = 1 /\ ~onDone[c][1].cancelled

\* C15: LookupHostname does nothing on its caller's thread but hand one
\* closure to the event engine: the name is parsed and getaddrinfo is called
\* by the work item, on a worker, and the caller's two steps leave every
\* lookup's frame, OS calls and results as they were.
C15_LookupHostnameOnlySubmits ==
  /\ [](\A c \in Calls :
          frame[c].pc # "idle" \/ gaiLog[c] # << >> =>
            frame[c].thread = "worker" /\ frame[c].via = "closure")
  /\ [][\A c \in Calls :
          caller[c].pc = "idle" /\ caller'[c].pc = "L77" =>
            /\ \E cl \in engine' :
                 /\ cl \notin engine
                 /\ engine' = engine \cup {cl}
                 /\ cl.on_done = c
            /\ UNCHANGED <<frame, ret, gaiLog, addrinfo, freed, onDone>>]_vars
  /\ [][\A c \in Calls :
          caller[c].pc = "L77" /\ caller'[c].pc = "returned" =>
            UNCHANGED <<engine, frame, ret, gaiLog, addrinfo, freed, onDone>>]_vars

\* LookupHostname has returned and nothing of the lookup has happened yet.
C15_Witness ==
  \E c \in Calls :
    /\ caller[c].op = "hostname" /\ caller[c].pc = "returned"
    /\ Pending(c)
    /\ frame[c] = NoFrame /\ gaiLog[c] = << >> /\ onDone[c] = << >>

\* The answers getaddrinfo gave the call, without the host and port asked.
Answers(c) == [k \in DOMAIN gaiLog[c] |-> <<gaiLog[c][k].s, gaiLog[c][k].n>>]

\* C16: two LookupHostname calls with the same name and default port whose
\* getaddrinfo calls are answered alike get the same result and the same
\* handle, whatever timeout, interested_parties and name_server they passed.
C16_UnusedArgumentsHaveNoEffect ==
  \A c, d \in Calls :
    /\ caller[c].op = "hostname" /\ caller[d].op = "hostname"
    /\ caller[c].name = caller[d].name
    /\ caller[c].default_port = caller[d].default_port
    =>
    /\ caller[c].pc = "returned" /\ caller[d].pc = "returned" =>
         caller[c].handle = caller[d].handle
    /\ Len(onDone[c]) = 1 /\ Len(onDone[d]) = 1 /\ Answers(c) = Answers(d) =>
         onDone[c][1].result = onDone[d][1].result

\* Two completed calls for the same target that differ in all three unused
\* arguments and both got addresses.
C16_Witness ==
  \E c, d \in Calls :
    /\ caller[c].name = caller[d].name
    /\ caller[c].default_port = caller[d].default_port
    /\ caller[c].unused.timeout # caller[d].unused.timeout
    /\ caller[c].unused.interested_parties # caller[d].unused.interested_parties
    /\ caller[c].unused.name_server # caller[d].unused.name_server
    /\ caller[c].pc = "returned" /\ caller[d].pc = "returned"
    /\ Len(onDone[c]) = 1 /\ Len(onDone[d]) = 1
    /\ Answers(c) = Answers(d)
    /\ onDone[c][1].result.ok /\ onDone[c][1].result.value # << >>

\* The lookup ended in one of the two errors found before any OS call.
EndedBeforeResolving(c) ==
  /\ Resolved(c)
  /\ ~frame[c].err.ok
  /\ frame[c].err.message \in {<<"unparseable host:port">>, <<"no port in name">>}

\* C17: a lookup that ends as unparseable or as missing port has made no
\* getaddrinfo call, got no list and released nothing; LookupSRV and
\* LookupTXT, their work items included, never enter LookupHostnameBlocking,
\* call getaddrinfo or release anything.
C17_NoOsCallWhereNoneIsNeeded ==
  \A c \in Calls :
    /\ EndedBeforeResolving(c) =>
         gaiLog[c] = << >> /\ addrinfo[c] = << >> /\ freed[c] = << >>
    /\ IsStub(c) =>
         /\ frame[c] = NoFrame /\ ret[c] = NoRet
         /\ gaiLog[c] = << >> /\ addrinfo[c] = << >> /\ freed[c] = << >>

\* A missing-port lookup has returned and a LookupSRV has been answered.
C17_Witness ==
  \E c, d \in Calls :
    /\ Returned(c) /\ frame[c].err.message = <<"no port in name">>
    /\ caller[d].op = "srv" /\ Len(onDone[d]) = 1 /\ ~Pending(d)

\* An unparseable lookup has returned and a LookupTXT has been answered.
C17_UnparseableWitness ==
  \E c, d \in Calls :
    /\ Returned(c) /\ frame[c].err.message = <<"unparseable host:port">>
    /\ caller[d].op = "txt" /\ Len(onDone[d]) = 1 /\ ~Pending(d)

\* What the callback of the call is due: the outcome of the blocking lookup
\* for its target, or the error of the unsupported lookup.
Due(c) ==
  IF caller[c].op = "hostname"
  THEN BlockingOutcome(caller[c].name, caller[c].default_port, gaiLog[c])
  ELSE [set |-> TRUE, ok |-> FALSE,
        status |-> [code |-> "UNIMPLEMENTED", message |-> StubMessage(c),
                    ints |-> NoProps, strs |-> NoProps]]

\* C18: Cancel touches nothing of any lookup, so with Cancel called at any
\* time every callback is still invoked at most once, with the result it is
\* due, and, the work items being run, exactly once.
C18_CancelChangesNothing ==
  /\ [](\A c \in Calls :
          /\ Len(onDone[c]) <= 1
          /\ \A k \in DOMAIN onDone[c] : onDone[c][k].result = Due(c))
  /\ [][cancel' # cancel =>
          UNCHANGED <<caller, engine, frame, ret, gaiLog, addrinfo, freed, onDone>>]_vars
  /\ \A c \in Calls : (caller[c].pc # "idle") ~> (Len(onDone[c]) = 1)

\* Cancel was called with a returned handle before either callback ran; a
\* LookupHostname still got its addresses and a LookupTXT its error.
C18_Witness ==
  \E c, d \in Calls :
    /\ cancel.called
    /\ caller[c].op = "hostname" /\ Len(onDone[c]) = 1
    /\ onDone[c][1].cancelled
    /\ onDone[c][1].result.ok /\ onDone[c][1].result.value # << >>
    /\ caller[d].op = "txt" /\ Len(onDone[d]) = 1
    /\ onDone[d][1].cancelled

\* The addresses made of the list getaddrinfo builds for n entries.
AddressesOf(host, port, n) ==
  [k \in 1..n |-> [addr |-> AddrinfoList(host, port, n)[k].ai_addr,
                   len  |-> AddrinfoList(host, port, n)[k].ai_addrlen]]

\* C19: when the name has no port and the default port is "http" or "https",
\* a failed first call is retried with the parsed host and "80" or "443", as
\* for a port in the name; a successful retry makes the lookup succeed with
\* the addresses of the retry, and the first failure is not reported.
C19_RetryUsesEffectivePort ==
  \A c \in Calls :
    LET hp == SplitHostPort(frame[c].name) IN
    /\ Resolved(c) /\ hp.host # << >> /\ hp.port = << >>
         /\ frame[c].default_port \in {<<"http">>, <<"https">>}
         /\ gaiLog[c] # << >> /\ gaiLog[c][1].s # 0 =>
           /\ Len(gaiLog[c]) = 2
           /\ gaiLog[c][1].port = frame[c].default_port
           /\ gaiLog[c][2].host = hp.host
           /\ gaiLog[c][2].port =
                (IF frame[c].default_port = <<"http">> THEN <<"80">> ELSE <<"443">>)
    /\ Resolved(c) /\ Len(gaiLog[c]) = 2 /\ gaiLog[c][2].s = 0 =>
           /\ frame[c].err = OkStatus
           /\ frame[c].addresses =
                AddressesOf(gaiLog[c][2].host, gaiLog[c][2].port, gaiLog[c][2].n)
           /\ Returned(c) => ret[c].ok /\ ret[c].value = frame[c].addresses

\* A name without a port, looked up with the default port "https": the first
\* call failed, the retry with "443" succeeded and its addresses came back.
C19_Witness ==
  \E c \in Calls :
    /\ Returned(c)
    /\ SplitHostPort(frame[c].name).port = << >>
    /\ frame[c].default_port = <<"https">>
    /\ Len(gaiLog[c]) = 2
    /\ gaiLog[c][1].s # 0 /\ gaiLog[c][2].s = 0 /\ gaiLog[c][2].n > 0
    /\ gaiLog[c][2].port = <<"443">>
    /\ ret[c].ok /\ Len(ret[c].value) = gaiLog[c][2].n
    /\ ret[c].value[1].addr.port = <<"443">>

\* C20: when the first call and the retry both fail, the error carries the
\* code and the text of the retry, and the name as it was passed.
C20_ErrorOfTheRetry ==
  \A c \in Calls :
    Resolved(c) /\ Len(gaiLog[c]) = 2 /\ gaiLog[c][1].s # 0 /\ gaiLog[c][2].s # 0 =>
      /\ ~frame[c].err.ok
      /\ frame[c].err.ints["kErrorNo"] = gaiLog[c][2].s
      /\ frame[c].err.strs["kOsError"] = gai_strerror(gaiLog[c][2].s)
      /\ frame[c].err.message = gai_strerror(gaiLog[c][2].s)
      /\ frame[c].err.strs["kTargetAddress"] = frame[c].name
      /\ Returned(c) => ~ret[c].ok

\* Both calls failed, with different codes, for a name with the port "http".
C20_Witness ==
  \E c \in Calls :
    /\ Returned(c)
    /\ Len(gaiLog[c]) = 2
    /\ gaiLog[c][1].s # 0 /\ gaiLog[c][2].s # 0 /\ gaiLog[c][1].s # gaiLog[c][2].s
    /\ frame[c].name = frame[c].host \o <<":">> \o <<"http">>
    /\ gaiLog[c][2].port = <<"80">>
    /\ frame[c].err.ints["kErrorNo"] = gaiLog[c][2].s
    /\ frame[c].err.strs["kTargetAddress"] = frame[c].name

====
